---- MODULE Spec2Model ----
(***************************************************************************)
(* One invocation of scripts/measure_and_send.py: module load (imports,    *)
(* sensor handles), argument parsing, schema-ensure, one reading of every  *)
(* sensor, one insert.  The measurements table outlives the process, so    *)
(* the initial state ranges over the stores earlier invocations leave.     *)
(***************************************************************************)
EXTENDS Integers, Sequences, FiniteSets, TLC

\* ------------------------------------------------------------------ bounds
\* Every climate and light call returns one of MaxVal different values, and
\* the particulate provider one of MaxVal different frames.
MaxVal == 2
\* The store holds 0..MaxPrior rows of earlier invocations at start.
MaxPrior == 1

\* ------------------------------------------------------- program constants
\* Python's None, bound to SQL NULL by sqlite3.
None == -1

\* logging's numeric levels behind LOG_LEVELS.
LOG_LEVELS ==
    [debug |-> 10, info |-> 20, warning |-> 30, error |-> 40, critical |-> 50]

\* The level logging.basicConfig sets at load time.
BasicConfigLevel == LOG_LEVELS["info"]

\* What --log-level may be given on the command line: the five choices and
\* one value outside them.
LogLevelArgs == DOMAIN LOG_LEVELS \cup {"verbose"}

\* The column list of CREATE TABLE IF NOT EXISTS measurements.
Columns ==
    << "timestamp", "temperature", "pressure", "humidity",
       "light_lux", "light_proximity",
       "pm1_0_standard", "pm2_5_standard", "pm10_standard",
       "pm1_0_env", "pm2_5_env", "pm10_env",
       "oxidising", "reducing", "nh3" >>

\* The four imports of the module, in order, and the three constructors.
Modules == << "enviroplus.gas", "bme280", "ltr559", "pms5003" >>
Handles == << "BME280", "LTR559", "PMS5003" >>

\* The five scalar reads of get_sensor_data: key of data, provider call.
ScalarReads ==
    << [key |-> "temperature",     call |-> "bme280.get_temperature"],
       [key |-> "pressure",        call |-> "bme280.get_pressure"],
       [key |-> "humidity",        call |-> "bme280.get_humidity"],
       [key |-> "light_lux",       call |-> "ltr559.get_lux"],
       [key |-> "light_proximity", call |-> "ltr559.get_proximity"] >>

\* PmReads with the environmental PM10 requested by literal size 10.
PmReadsLiteral10 ==
    << [key |-> "pm1_0_standard", size |-> "1.0",  env |-> FALSE],
       [key |-> "pm2_5_standard", size |-> "2.5",  env |-> FALSE],
       [key |-> "pm10_standard",  size |-> "10",   env |-> FALSE],
       [key |-> "pm1_0_env",      size |-> "1.0",  env |-> TRUE],
       [key |-> "pm2_5_env",      size |-> "2.5",  env |-> TRUE],
       [key |-> "pm10_env",       size |-> "10",   env |-> TRUE] >>

\* The six pm_ug_per_m3 calls of the try block: key of data, size argument,
\* atmospheric_environment argument.
PmReads ==
    << [key |-> "pm1_0_standard", size |-> "1.0",  env |-> FALSE],
       [key |-> "pm2_5_standard", size |-> "2.5",  env |-> FALSE],
       [key |-> "pm10_standard",  size |-> "10",   env |-> FALSE],
       [key |-> "pm1_0_env",      size |-> "1.0",  env |-> TRUE],
       [key |-> "pm2_5_env",      size |-> "2.5",  env |-> TRUE],
       [key |-> "pm10_env",       size |-> "None", env |-> TRUE] >>

\* --------------------------------------------------------------- providers
Val == 1..MaxVal

\* The size arguments a reading answers to; "None" is the provider's
\* largest-bin marker.
Sizes == << "1.0", "2.5", "10", "None" >>

SizeIdx(s) == CHOOSE i \in 1..Len(Sizes) : Sizes[i] = s

\* A frame of the particulate provider: one concentration per (size, basis),
\* all different within a frame.
Frame(k) ==
    [p \in {<<s, e>> : s \in {Sizes[i] : i \in 1..Len(Sizes)}, e \in BOOLEAN} |->
        k + 2 * SizeIdx(p[1]) + (IF p[2] THEN 1 ELSE 0)]

Frames == {Frame(k) : k \in Val}

\* What gas.read_all() may return: one of two readings, with different
\* values in the three channels.
GasReadings ==
    { [oxidising |-> 1, reducing |-> 2, nh3 |-> 3],
      [oxidising |-> 3, reducing |-> 1, nh3 |-> 2] }

\* The i-th row earlier invocations left in the table (runs whose
\* particulate read timed out), stamped i by the clock.
PriorRow(i) ==
    << i, 1, 1, 1, 1, 1, None, None, None, None, None, None, 1, 2, 3 >>

\* What datetime.datetime.now() returns: the clock is past the stamps of
\* the rows already stored.
ClockReading(n) == n + 1

VARIABLES
    pc,            \* the statement the process is at, or "exited"
    exitStatus,    \* the process's exit status, None while it runs
    log,           \* the calls made to logging.*, in order
    logLevel,      \* the root logger's level
    handles,       \* the sensor handles constructed so far
    timestamp,     \* the local variable timestamp of __main__
    data,          \* the dict data / sensor_data
    pms5003_data,  \* the reading pms5003_sensor.read() returned
    schema,        \* the column list of table measurements, <<>> if absent
    table,         \* the committed rows of measurements
    pending,       \* the rows inserted by the open transaction
    conns,         \* the number of open sqlite3 connections
    trace,         \* the calls made to the loader, the clock, the sensors
                   \* and the store, each with its outcome
    rowsAtStart,   \* Len(table) when the process started
    argLogLevel    \* the value of --log-level on the command line

vars ==
    << pc, exitStatus, log, logLevel, handles, timestamp, data, pms5003_data,
       schema, table, pending, conns, trace, rowsAtStart, argLogLevel >>

\* ----------------------------------------------------------------- helpers
EmptyDict == [k \in {} |-> None]

\* One call the process made: the part of the script making it, the callee,
\* how it ended ("ok", "ReadTimeoutError", or "error" for any other
\* exception) and what it returned.
Call(fn, call, out, val) == [fn |-> fn, call |-> call, out |-> out, val |-> val]

\* data[k] = v
Put(d, k, v) == (k :> v) @@ d

\* logging.<level>(msg): the record is handed to the root logger, which
\* emits it when the level reaches the logger's.
LogCall(lg, lvl, level, msg) ==
    Append(lg, [level |-> level, msg |-> msg,
                emitted |-> LOG_LEVELS[level] >= lvl])

\* pms5003_data.pm_ug_per_m3(size, atmospheric_environment)
pm_ug_per_m3(reading, size, env) == reading[<<size, env>>]

\* TimeoutUpdate resetting the three environmental keys only.
TimeoutUpdateEnvOnly(d) ==
    [k \in {"pm1_0_env", "pm2_5_env", "pm10_env"} |-> None] @@ d

\* The data.update({...}) of the ReadTimeoutError handler.
TimeoutUpdate(d) ==
    [k \in {PmReads[i].key : i \in 1..Len(PmReads)} |-> None] @@ d

\* InsertParams binding no timestamp.
InsertParamsNullTimestamp(d) ==
    << None, d["temperature"], d["pressure"], d["humidity"],
       d["light_lux"], d["light_proximity"],
       d["pm1_0_standard"], d["pm2_5_standard"], d["pm10_standard"],
       d["pm1_0_env"], d["pm2_5_env"], d["pm10_env"],
       d["oxidising"], d["reducing"], d["nh3"] >>

\* The parameter tuple of the INSERT statement.
InsertParams(d) ==
    << d["timestamp"], d["temperature"], d["pressure"], d["humidity"],
       d["light_lux"], d["light_proximity"],
       d["pm1_0_standard"], d["pm2_5_standard"], d["pm10_standard"],
       d["pm1_0_env"], d["pm2_5_env"], d["pm10_env"],
       d["oxidising"], d["reducing"], d["nh3"] >>

\* The status exit() leaves the interpreter with: SystemExit(None).
ExitCallStatus == 0
\* The status of an uncaught exception.
UncaughtStatus == 1
\* The status of argparse's parser.error().
ArgparseErrorStatus == 2

\* The value of column c in a row of measurements.
Col(row, c) == row[CHOOSE i \in 1..Len(Columns) : Columns[i] = c]

\* -------------------------------------------------------------------- Init
Init ==
    /\ pc = <<"import", 1>>
    /\ exitStatus = None
    /\ log = << >>
    /\ logLevel = BasicConfigLevel
    /\ handles = {}
    /\ timestamp = None
    /\ data = EmptyDict
    /\ pms5003_data = EmptyDict
    /\ \E n \in 0..MaxPrior, exists \in BOOLEAN :
          /\ n > 0 => exists
          /\ schema = IF exists THEN Columns ELSE << >>
          /\ table = IF n = 0 THEN << >> ELSE [i \in 1..n |-> PriorRow(i)]
    /\ pending = << >>
    /\ conns = 0
    /\ trace = << >>
    /\ rowsAtStart = Len(table)
    /\ argLogLevel \in LogLevelArgs

\* ------------------------------------------------------------ process exit
\* exit(): SystemExit with no code.
ExitCall ==
    /\ pc' = <<"exited", 0>>
    /\ exitStatus' = ExitCallStatus

\* An exception nothing catches: traceback on stderr, no logging call.
Uncaught ==
    /\ pc' = <<"exited", 0>>
    /\ exitStatus' = UncaughtStatus

\* ------------------------------------------------------------- module load
\* The i-th try: from <module> import ...  except ImportError:
\* logging.error(...); exit()
Import(i) ==
    /\ pc = <<"import", i>>
    /\ \/ /\ trace' = Append(trace, Call("import", Modules[i], "ok", None))
          /\ pc' = IF i < Len(Modules) THEN <<"import", i + 1>>
                   ELSE <<"construct", 1>>
          /\ UNCHANGED << exitStatus, log >>
       \/ /\ trace' = Append(trace, Call("import", Modules[i], "error", None))
          /\ log' = LogCall(log, logLevel, "error", "not installed")
          /\ ExitCall
    /\ UNCHANGED << logLevel, handles, timestamp, data, pms5003_data, schema,
                    table, pending, conns, rowsAtStart, argLogLevel >>

\* bme280 = BME280(); ltr559 = LTR559(); pms5003_sensor = PMS5003()
Construct(i) ==
    /\ pc = <<"construct", i>>
    /\ \/ /\ trace' = Append(trace, Call("construct", Handles[i], "ok", None))
          /\ handles' = handles \cup {Handles[i]}
          /\ pc' = IF i < Len(Handles) THEN <<"construct", i + 1>>
                   ELSE <<"parse_args", 0>>
          /\ UNCHANGED exitStatus
       \/ /\ trace' = Append(trace, Call("construct", Handles[i], "error", None))
          /\ Uncaught
          /\ UNCHANGED handles
    /\ UNCHANGED << log, logLevel, timestamp, data, pms5003_data, schema,
                    table, pending, conns, rowsAtStart, argLogLevel >>

\* ParseArgs without choices=: an unknown level falls back to the default.
ParseArgsNoChoices ==
    /\ pc = <<"parse_args", 0>>
    /\ trace' = Append(trace, Call("__main__", "parse_args", "ok", None))
    /\ logLevel' = IF argLogLevel \in DOMAIN LOG_LEVELS
                   THEN LOG_LEVELS[argLogLevel] ELSE BasicConfigLevel
    /\ log' = LogCall(log, logLevel', "info", "starting")
    /\ pc' = <<"create_connect", 0>>
    /\ UNCHANGED << exitStatus, handles, timestamp, data, pms5003_data,
                    schema, table, pending, conns, rowsAtStart, argLogLevel >>

\* ---------------------------------------------------------------- __main__
\* parser.parse_args() with choices=list(LOG_LEVELS.keys()), then setLevel
\* and the starting line.
ParseArgs ==
    /\ pc = <<"parse_args", 0>>
    /\ IF argLogLevel \in DOMAIN LOG_LEVELS
       THEN /\ trace' = Append(trace, Call("__main__", "parse_args", "ok", None))
            /\ logLevel' = LOG_LEVELS[argLogLevel]
            /\ log' = LogCall(log, LOG_LEVELS[argLogLevel], "info", "starting")
            /\ pc' = <<"create_connect", 0>>
            /\ UNCHANGED exitStatus
       ELSE /\ trace' = Append(trace, Call("__main__", "parse_args", "error", None))
            /\ pc' = <<"exited", 0>>
            /\ exitStatus' = ArgparseErrorStatus
            /\ UNCHANGED << log, logLevel >>
    /\ UNCHANGED << handles, timestamp, data, pms5003_data, schema, table,
                    pending, conns, rowsAtStart, argLogLevel >>

\* --------------------------------------------------- create_database_table
\* conn = sqlite3.connect(db_file)
CreateConnect ==
    /\ pc = <<"create_connect", 0>>
    /\ \/ /\ trace' = Append(trace,
                Call("create_database_table", "connect", "ok", None))
          /\ conns' = conns + 1
          /\ pc' = <<"create_execute", 0>>
          /\ UNCHANGED exitStatus
       \/ /\ trace' = Append(trace,
                Call("create_database_table", "connect", "error", None))
          /\ Uncaught
          /\ UNCHANGED conns
    /\ UNCHANGED << log, logLevel, handles, timestamp, data, pms5003_data,
                    schema, table, pending, rowsAtStart, argLogLevel >>

\* c.execute('CREATE TABLE IF NOT EXISTS measurements (...)')
CreateExecute ==
    /\ pc = <<"create_execute", 0>>
    /\ \/ /\ trace' = Append(trace,
                Call("create_database_table", "execute", "ok", None))
          /\ schema' = IF schema = << >> THEN Columns ELSE schema
          /\ pc' = <<"create_commit", 0>>
          /\ UNCHANGED exitStatus
       \/ /\ trace' = Append(trace,
                Call("create_database_table", "execute", "error", None))
          /\ Uncaught
          /\ UNCHANGED schema
    /\ UNCHANGED << log, logLevel, handles, timestamp, data, pms5003_data,
                    table, pending, conns, rowsAtStart, argLogLevel >>

\* conn.commit()
CreateCommit ==
    /\ pc = <<"create_commit", 0>>
    /\ \/ /\ trace' = Append(trace,
                Call("create_database_table", "commit", "ok", None))
          /\ pc' = <<"create_close", 0>>
          /\ UNCHANGED exitStatus
       \/ /\ trace' = Append(trace,
                Call("create_database_table", "commit", "error", None))
          /\ Uncaught
    /\ UNCHANGED << log, logLevel, handles, timestamp, data, pms5003_data,
                    schema, table, pending, conns, rowsAtStart, argLogLevel >>

\* conn.close()
CreateClose ==
    /\ pc = <<"create_close", 0>>
    /\ trace' = Append(trace, Call("create_database_table", "close", "ok", None))
    /\ conns' = conns - 1
    /\ pc' = <<"now", 0>>
    /\ UNCHANGED << exitStatus, log, logLevel, handles, timestamp, data,
                    pms5003_data, schema, table, pending, rowsAtStart,
                    argLogLevel >>

\* timestamp = datetime.datetime.now().isoformat(); logging.info(...)
Now ==
    /\ pc = <<"now", 0>>
    /\ timestamp' = ClockReading(rowsAtStart)
    /\ trace' = Append(trace, Call("__main__", "datetime.now", "ok",
                                   ClockReading(rowsAtStart)))
    /\ log' = LogCall(log, logLevel, "info", "reading")
    /\ pc' = <<"scalar", 1>>
    /\ UNCHANGED << exitStatus, logLevel, handles, data, pms5003_data,
                    schema, table, pending, conns, rowsAtStart, argLogLevel >>

\* --------------------------------------------------------- get_sensor_data
\* data[key] = <provider call>() for the climate and light providers; an
\* exception raised by the call is caught nowhere.
ReadScalar(i) ==
    /\ pc = <<"scalar", i>>
    /\ \/ /\ \E v \in Val :
                /\ data' = Put(data, ScalarReads[i].key, v)
                /\ trace' = Append(trace,
                      Call("get_sensor_data", ScalarReads[i].call, "ok", v))
          /\ pc' = IF i < Len(ScalarReads) THEN <<"scalar", i + 1>>
                   ELSE <<"pms_read", 0>>
          /\ UNCHANGED exitStatus
       \/ /\ trace' = Append(trace,
                Call("get_sensor_data", ScalarReads[i].call, "error", None))
          /\ Uncaught
          /\ UNCHANGED data
    /\ UNCHANGED << log, logLevel, handles, timestamp, pms5003_data, schema,
                    table, pending, conns, rowsAtStart, argLogLevel >>

\* ReadTimeoutHandler returning data from the handler, the gas read skipped.
ReadTimeoutSkipsGas ==
    /\ log' = LogCall(log, logLevel, "warning", "read timeout")
    /\ data' = TimeoutUpdate(data)
    /\ pc' = <<"set_timestamp", 0>>
    /\ UNCHANGED exitStatus

\* except ReadTimeoutError: logging.warning(...); data.update({...: None}),
\* then on to the gas provider.
ReadTimeoutHandler ==
    /\ log' = LogCall(log, logLevel, "warning", "read timeout")
    /\ data' = TimeoutUpdate(data)
    /\ pc' = <<"gas", 0>>
    /\ UNCHANGED exitStatus

\* pms5003_data = pms5003_sensor.read(), first statement of the try block.
PmsRead ==
    /\ pc = <<"pms_read", 0>>
    /\ \/ /\ \E f \in Frames :
                /\ pms5003_data' = f
                /\ trace' = Append(trace,
                      Call("get_sensor_data", "pms5003.read", "ok", f))
          /\ pc' = <<"pm", 1>>
          /\ UNCHANGED << exitStatus, log, data >>
       \/ /\ trace' = Append(trace,
                Call("get_sensor_data", "pms5003.read", "ReadTimeoutError", None))
          /\ ReadTimeoutHandler
          /\ UNCHANGED pms5003_data
       \/ /\ trace' = Append(trace,
                Call("get_sensor_data", "pms5003.read", "error", None))
          /\ Uncaught
          /\ UNCHANGED << log, data, pms5003_data >>
    /\ UNCHANGED << logLevel, handles, timestamp, schema, table, pending,
                    conns, rowsAtStart, argLogLevel >>

\* data[key] = pms5003_data.pm_ug_per_m3(size, env), the i-th of the six
\* statements that follow read() in the try block.
PmField(i) ==
    /\ pc = <<"pm", i>>
    /\ \/ /\ data' = Put(data, PmReads[i].key,
                         pm_ug_per_m3(pms5003_data, PmReads[i].size,
                                      PmReads[i].env))
          /\ trace' = Append(trace,
                Call("get_sensor_data", "pm_ug_per_m3", "ok", PmReads[i].key))
          /\ pc' = IF i < Len(PmReads) THEN <<"pm", i + 1>> ELSE <<"gas", 0>>
          /\ UNCHANGED << exitStatus, log >>
       \/ /\ trace' = Append(trace,
                Call("get_sensor_data", "pm_ug_per_m3", "ReadTimeoutError",
                     PmReads[i].key))
          /\ ReadTimeoutHandler
       \/ /\ trace' = Append(trace,
                Call("get_sensor_data", "pm_ug_per_m3", "error", PmReads[i].key))
          /\ Uncaught
          /\ UNCHANGED << log, data >>
    /\ UNCHANGED << logLevel, handles, timestamp, pms5003_data, schema, table,
                    pending, conns, rowsAtStart, argLogLevel >>

\* GasReadAll with the gas read guarded like the particulate read: on an
\* exception the three channels are set to None and the run goes on.
GasReadAllRecovered ==
    /\ pc = <<"gas", 0>>
    /\ \/ /\ \E g \in GasReadings :
                /\ data' = Put(Put(Put(data, "oxidising", g.oxidising),
                                   "reducing", g.reducing), "nh3", g.nh3)
                /\ trace' = Append(trace,
                      Call("get_sensor_data", "gas.read_all", "ok", g))
       \/ /\ data' = Put(Put(Put(data, "oxidising", None),
                             "reducing", None), "nh3", None)
          /\ trace' = Append(trace,
                Call("get_sensor_data", "gas.read_all", "error", None))
    /\ pc' = <<"set_timestamp", 0>>
    /\ UNCHANGED << exitStatus, log, logLevel, handles, timestamp,
                    pms5003_data, schema, table, pending, conns, rowsAtStart,
                    argLogLevel >>

\* gas_data = gas.read_all() and the three assignments; return data.
GasReadAll ==
    /\ pc = <<"gas", 0>>
    /\ \/ /\ \E g \in GasReadings :
                /\ data' = Put(Put(Put(data, "oxidising", g.oxidising),
                                   "reducing", g.reducing), "nh3", g.nh3)
                /\ trace' = Append(trace,
                      Call("get_sensor_data", "gas.read_all", "ok", g))
          /\ pc' = <<"set_timestamp", 0>>
          /\ UNCHANGED exitStatus
       \/ /\ trace' = Append(trace,
                Call("get_sensor_data", "gas.read_all", "error", None))
          /\ Uncaught
          /\ UNCHANGED data
    /\ UNCHANGED << log, logLevel, handles, timestamp, pms5003_data, schema,
                    table, pending, conns, rowsAtStart, argLogLevel >>

\* sensor_data['timestamp'] = timestamp; logging.debug(...)
SetTimestamp ==
    /\ pc = <<"set_timestamp", 0>>
    /\ data' = Put(data, "timestamp", timestamp)
    /\ log' = LogCall(log, logLevel, "debug", "sensor data read")
    /\ pc' = <<"log_connect", 0>>
    /\ UNCHANGED << exitStatus, logLevel, handles, timestamp, pms5003_data,
                    schema, table, pending, conns, trace, rowsAtStart,
                    argLogLevel >>

\* ---------------------------------------------------------------- log_data
\* conn = sqlite3.connect(db_file), before the try statement.
LogConnect ==
    /\ pc = <<"log_connect", 0>>
    /\ \/ /\ trace' = Append(trace, Call("log_data", "connect", "ok", None))
          /\ conns' = conns + 1
          /\ pc' = <<"log_execute", 0>>
          /\ UNCHANGED exitStatus
       \/ /\ trace' = Append(trace, Call("log_data", "connect", "error", None))
          /\ Uncaught
          /\ UNCHANGED conns
    /\ UNCHANGED << log, logLevel, handles, timestamp, data, pms5003_data,
                    schema, table, pending, rowsAtStart, argLogLevel >>

\* except Exception as e: logging.error(f"Error logging data: {e}"), then
\* the finally clause.
LogDataHandler ==
    /\ log' = LogCall(log, logLevel, "error", "error logging data")
    /\ pc' = <<"log_close", 0>>

\* c.execute("INSERT INTO measurements VALUES (?, ... ?)", (...)): raises
\* when a key of data or the table is missing, a value per column is not
\* supplied, or the store refuses the write.
LogExecute ==
    /\ pc = <<"log_execute", 0>>
    /\ \/ /\ {Columns[i] : i \in 1..Len(Columns)} \subseteq DOMAIN data
          /\ Len(schema) = Len(InsertParams(data))
          /\ trace' = Append(trace, Call("log_data", "execute", "ok", None))
          /\ pending' = Append(pending, InsertParams(data))
          /\ pc' = <<"log_commit", 0>>
          /\ UNCHANGED log
       \/ /\ trace' = Append(trace, Call("log_data", "execute", "error", None))
          /\ LogDataHandler
          /\ UNCHANGED pending
    /\ UNCHANGED << exitStatus, logLevel, handles, timestamp, data,
                    pms5003_data, schema, table, conns, rowsAtStart,
                    argLogLevel >>

\* conn.commit()
LogCommit ==
    /\ pc = <<"log_commit", 0>>
    /\ \/ /\ trace' = Append(trace, Call("log_data", "commit", "ok", None))
          /\ table' = table \o pending
          /\ pending' = << >>
          /\ pc' = <<"log_close", 0>>
          /\ UNCHANGED log
       \/ /\ trace' = Append(trace, Call("log_data", "commit", "error", None))
          /\ LogDataHandler
          /\ UNCHANGED << table, pending >>
    /\ UNCHANGED << exitStatus, logLevel, handles, timestamp, data,
                    pms5003_data, schema, conns, rowsAtStart, argLogLevel >>

\* finally: conn.close(); what the transaction has not committed is lost.
LogClose ==
    /\ pc = <<"log_close", 0>>
    /\ trace' = Append(trace, Call("log_data", "close", "ok", None))
    /\ conns' = conns - 1
    /\ pending' = << >>
    /\ pc' = <<"final", 0>>
    /\ UNCHANGED << exitStatus, log, logLevel, handles, timestamp, data,
                    pms5003_data, schema, table, rowsAtStart, argLogLevel >>

\* logging.info("Data logged successfully. Exiting."); end of the script.
Final ==
    /\ pc = <<"final", 0>>
    /\ log' = LogCall(log, logLevel, "info", "data logged successfully")
    /\ pc' = <<"exited", 0>>
    /\ exitStatus' = 0
    /\ UNCHANGED << logLevel, handles, timestamp, data, pms5003_data, schema,
                    table, pending, conns, trace, rowsAtStart, argLogLevel >>

Next ==
    \/ \E i \in 1..Len(Modules) : Import(i)
    \/ \E i \in 1..Len(Handles) : Construct(i)
    \/ ParseArgs
    \/ CreateConnect
    \/ CreateExecute
    \/ CreateCommit
    \/ CreateClose
    \/ Now
    \/ \E i \in 1..Len(ScalarReads) : ReadScalar(i)
    \/ PmsRead
    \/ \E i \in 1..Len(PmReads) : PmField(i)
    \/ GasReadAll
    \/ SetTimestamp
    \/ LogConnect
    \/ LogExecute
    \/ LogCommit
    \/ LogClose
    \/ Final

Spec == Init /\ [][Next]_vars

\* ------------------------------------------------------------------ claims
\* The positions of trace holding a call of `call` made by `fn`.
Calls(fn, call) ==
    {i \in 1..Len(trace) : trace[i].fn = fn /\ trace[i].call = call}

\* What the first call of `call` returned.
Returned(call) ==
    trace[CHOOSE i \in 1..Len(trace) : trace[i].call = call].val

\* logging.<level>(msg) has been called.
Logged(level, msg) ==
    \E j \in 1..Len(log) : log[j].level = level /\ log[j].msg = msg

\* The rows this invocation has appended to measurements.
Appended == {table[i] : i \in (rowsAtStart + 1)..Len(table)}

Exited == pc = <<"exited", 0>>

PmCols ==
    { "pm1_0_standard", "pm2_5_standard", "pm10_standard",
      "pm1_0_env", "pm2_5_env", "pm10_env" }

AllOrNone(row) ==
    \/ \A c \in PmCols : Col(row, c) = None
    \/ \A c \in PmCols : Col(row, c) # None

\* C1: every row of measurements, committed or inserted by the open
\* transaction, holds its six particulate columns either all NULL or all
\* non-NULL, whatever the particulate provider did.
C1_ParticulateAllOrNone ==
    /\ \A i \in 1..Len(table) : AllOrNone(table[i])
    /\ \A i \in 1..Len(pending) : AllOrNone(pending[i])

\* A row was appended in a run whose read() returned a frame and whose last
\* pm_ug_per_m3 call timed out, after five particulate values were stored.
C1_Witness ==
    /\ Len(table) > rowsAtStart
    /\ \E i \in 1..Len(trace) :
          /\ trace[i].call = "pm_ug_per_m3"
          /\ trace[i].out = "ReadTimeoutError"
          /\ trace[i].val = "pm10_env"
    /\ \A c \in PmCols : Col(table[Len(table)], c) = None

\* C2: a run appends at most one row and leaves the earlier rows alone; a
\* run that exits 0 with its insert committed has appended exactly one row,
\* whose timestamp is non-NULL and is the value of the one clock read of
\* the run.
C2_OneRowPerRun ==
    /\ rowsAtStart <= Len(table)
    /\ Len(table) <= rowsAtStart + 1
    /\ \A i \in 1..rowsAtStart : table[i] = PriorRow(i)
    /\ Cardinality(Calls("__main__", "datetime.now")) <= 1
    /\ (/\ Exited
        /\ exitStatus = 0
        /\ \E i \in Calls("log_data", "commit") : trace[i].out = "ok")
       => /\ Len(table) = rowsAtStart + 1
          /\ Col(table[Len(table)], "timestamp") # None
          /\ Col(table[Len(table)], "timestamp") = Returned("datetime.now")
          /\ Cardinality(Calls("__main__", "datetime.now")) = 1

\* A run has exited 0 with its row committed after an earlier row.
C2_Witness ==
    /\ Exited
    /\ exitStatus = 0
    /\ rowsAtStart = 1
    /\ Len(table) = 2
    /\ \E i \in Calls("log_data", "commit") : trace[i].out = "ok"

\* C3: when pms5003_sensor.read() raises ReadTimeoutError the run goes on:
\* logging.warning is called (and emitted when the level admits warnings),
\* the six particulate keys of data are None, the next call made is
\* gas.read_all, and a row appended by the run holds the clock, climate,
\* light and gas values as returned, with the six pm columns NULL.
C3_ReadTimeoutRecovered ==
    \A i \in Calls("get_sensor_data", "pms5003.read") :
       trace[i].out = "ReadTimeoutError" =>
          /\ \E j \in 1..Len(log) :
                /\ log[j].level = "warning"
                /\ log[j].msg = "read timeout"
                /\ log[j].emitted <=> (logLevel <= LOG_LEVELS["warning"])
          /\ \A c \in PmCols : c \in DOMAIN data /\ data[c] = None
          /\ i = Len(trace) => pc = <<"gas", 0>> /\ exitStatus = None
          /\ i < Len(trace) => trace[i + 1].call = "gas.read_all"
          /\ \A row \in Appended :
                row = << Returned("datetime.now"),
                         Returned("bme280.get_temperature"),
                         Returned("bme280.get_pressure"),
                         Returned("bme280.get_humidity"),
                         Returned("ltr559.get_lux"),
                         Returned("ltr559.get_proximity"),
                         None, None, None, None, None, None,
                         Returned("gas.read_all").oxidising,
                         Returned("gas.read_all").reducing,
                         Returned("gas.read_all").nh3 >>

\* read() timed out and the run appended its row, with different values in
\* neighbouring columns.
C3_Witness ==
    /\ \E i \in Calls("get_sensor_data", "pms5003.read") :
          trace[i].out = "ReadTimeoutError"
    /\ Appended # {}
    /\ Col(table[Len(table)], "temperature") # Col(table[Len(table)], "pressure")
    /\ Col(table[Len(table)], "light_lux") # Col(table[Len(table)], "humidity")

\* C4: a failure of sqlite3.connect, execute or commit inside log_data is
\* logged as an error and swallowed: the process does not end with an
\* uncaught exception and no row is appended.
C4_PersistenceErrorSwallowed ==
    \A i \in 1..Len(trace) :
       (trace[i].fn = "log_data" /\ trace[i].out = "error") =>
          /\ Logged("error", "error logging data")
          /\ exitStatus # UncaughtStatus
          /\ Len(table) = rowsAtStart

\* C5: when an import or a sensor constructor fails, the process has logged
\* an error and exited with a non-zero status, without touching the store or
\* reading a sensor.
C5_StartupFailureFatal ==
    \A i \in 1..Len(trace) :
       (trace[i].fn \in {"import", "construct"} /\ trace[i].out = "error") =>
          /\ Exited
          /\ exitStatus \notin {None, 0}
          /\ \E j \in 1..Len(log) : log[j].level = "error"
          /\ \A k \in 1..Len(trace) :
                trace[k].fn \notin
                   {"create_database_table", "get_sensor_data", "log_data"}
          /\ Len(table) = rowsAtStart

\* C6 as stated: when parse_args rejects --log-level, no call to a sensor
\* provider, the construction of a handle included, has been made, and the
\* store has not been touched.
C6_RejectedBeforeAnySensorInteraction ==
    (\E i \in Calls("__main__", "parse_args") : trace[i].out = "error") =>
       /\ \A k \in 1..Len(trace) :
             trace[k].fn \notin
                {"construct", "get_sensor_data", "create_database_table",
                 "log_data"}
       /\ handles = {}
       /\ Len(table) = rowsAtStart

\* C6 amended: with --log-level outside the five choices no sensor is ever
\* read and the store is never touched, and once parse_args has run the
\* process has exited with argparse's status; the three sensor handles were
\* constructed at module load, before the rejection.
C6_RejectedBeforeAnySensorRead ==
    argLogLevel \notin DOMAIN LOG_LEVELS =>
       /\ \A k \in 1..Len(trace) :
             trace[k].fn \notin
                {"get_sensor_data", "create_database_table", "log_data"}
       /\ Len(table) = rowsAtStart
       /\ pending = << >>
       /\ conns = 0
       /\ \A i \in Calls("__main__", "parse_args") :
             /\ trace[i].out = "error"
             /\ i = Len(trace)
             /\ Exited
             /\ exitStatus = ArgparseErrorStatus
             /\ handles = {Handles[h] : h \in 1..Len(Handles)}

\* parse_args has rejected the value.
C6_Witness ==
    /\ argLogLevel \notin DOMAIN LOG_LEVELS
    /\ \E i \in Calls("__main__", "parse_args") : trace[i].out = "error"
    /\ Exited

\* C7: a run that reaches the end of the script exits 0 having logged the
\* confirmation line exactly once, and the confirmation line is logged only
\* when the run's row is committed.
C7_ConfirmationOnlyWhenCommitted ==
    /\ Cardinality({j \in 1..Len(log) :
                      log[j].msg = "data logged successfully"}) <= 1
    /\ Logged("info", "data logged successfully") =>
          /\ Exited
          /\ exitStatus = 0
          /\ Len(table) = rowsAtStart + 1

C9_ConnectionReleased ==
    /\ conns <= 1
    /\ pc[1] \notin {"create_execute", "create_commit", "create_close",
                     "log_execute", "log_commit", "log_close"} => conns = 0

\* C10: when read() and the six pm_ug_per_m3 calls succeed, a row appended
\* by the run holds, in columns 7 to 12, the frame's concentrations for
\* (1.0, std), (2.5, std), (10, std), (1.0, env), (2.5, env) and
\* (largest bin, env); pm10_env is not the value for literal size 10.
C10_ParticulateMapping ==
    (\E i \in Calls("get_sensor_data", "pm_ug_per_m3") :
        trace[i].out = "ok" /\ trace[i].val = "pm10_env") =>
       \A row \in Appended :
          /\ SubSeq(row, 7, 12) =
                << Returned("pms5003.read")[<<"1.0", FALSE>>],
                   Returned("pms5003.read")[<<"2.5", FALSE>>],
                   Returned("pms5003.read")[<<"10", FALSE>>],
                   Returned("pms5003.read")[<<"1.0", TRUE>>],
                   Returned("pms5003.read")[<<"2.5", TRUE>>],
                   Returned("pms5003.read")[<<"None", TRUE>>] >>
          /\ Col(row, "pm10_env") = Returned("pms5003.read")[<<"None", TRUE>>]
          /\ Col(row, "pm10_env") # Returned("pms5003.read")[<<"10", TRUE>>]
          /\ Col(row, "pm10_standard") = Returned("pms5003.read")[<<"10", FALSE>>]

\* The particulate read succeeded and the row is in the table.
C10_Witness ==
    /\ \E i \in Calls("get_sensor_data", "pm_ug_per_m3") :
          trace[i].out = "ok" /\ trace[i].val = "pm10_env"
    /\ Appended # {}

====
